---- MODULE Spec2Model ----
(***************************************************************************)
(* Model of streamlit_app.py: plot_region(c, k, n) and the Streamlit       *)
(* script main() that calls it once per run.                               *)
(*                                                                         *)
(* Numbers.  Python's float and numpy's float64 are IEEE 754 binary64.     *)
(* The model computes every product, quotient, sum and difference as the   *)
(* program does: exactly, then rounded to 53 bits, to nearest, ties to     *)
(* even.  All numbers of the program are finite and non-negative.          *)
(*                                                                         *)
(* <<hi, lo, e>> stands for (hi * 2^28 + lo) / 2^55 * 2^e: the significand *)
(* is kept left-aligned in 56 bits, in two digits of 28 bits, 2^27 <= hi < *)
(* 2^28; its 53 bits are followed by three zero bits.  Zero is <<0, 0, 0>>.*)
(***************************************************************************)
EXTENDS Integers, Sequences, FiniteSets, TLC

VARIABLES
    c, k, n,        \* the arguments of the latest call of plot_region
    L, S,           \* its coordinate grids (meshgrid)
    region1,        \* L*S < c
    ratio,          \* S/L, 0 where L = 0
    region2,        \* 1/k < ratio < k
    region,         \* region1 & region2
    l_line,         \* the sampled L values of the boundary curves
    s_hyp, s_line_up, s_line_dn,   \* the three boundary curves
    fig,            \* the figure the call returned
    plt             \* pyplot: the number of figures opened and not closed

vars == <<c, k, n, L, S, region1, ratio, region2, region,
          l_line, s_hyp, s_line_up, s_line_dn, fig, plt>>

-----------------------------------------------------------------------------
(* Bounds of the model *)

\* plot_region is called with n in 1..MaxN
MaxN == 15
\* at most MaxFigs calls in one process (every call opens a figure)
MaxFigs == 4
\* the n slider is modelled on its first MaxNStep positions
MaxNStep == 4
\* the k slider is modelled on its positions 0..MaxKStep
MaxKStep == 2

(* Program constants *)

\* np.linspace(1e-9, 1, 400): the number of samples of a boundary curve
CurveSamples == 400
\* 1e-9 = 1 / TinyDen, the first sample of a boundary curve
TinyDen == 1000000000
\* the n slider: min_value, step, default
NSliderMin == 50
NSliderStep == 50
NSliderDefault == 200
\* the k slider: min_value, step
KSliderMin == 1
KSliderStep == 100

-----------------------------------------------------------------------------
(* binary64 arithmetic *)

W28 == 2 ^ 28
W27 == 2 ^ 27
W14 == 2 ^ 14

Pow2(b) == 2 ^ b

FZero == <<0, 0, 0>>
FOne == <<W27, 0, 0>>

FIsZero(x) == x[1] = 0

\* Round a 56-bit significand (hi >= 2^27) with a sticky flag for the bits
\* below it to 53 bits, to nearest, ties to even
RoundPack(hi, lo, sticky, e) ==
    LET guard == (lo \div 4) % 2
        rest == (lo % 4 # 0) \/ sticky
        odd == (lo \div 8) % 2 = 1
        base == lo - (lo % 8)
        up == guard = 1 /\ (rest \/ odd)
        lo1 == IF up THEN base + 8 ELSE base
        hi1 == IF lo1 = W28 THEN hi + 1 ELSE hi
        lo2 == IF lo1 = W28 THEN 0 ELSE lo1
    IN  IF hi1 = W28 THEN <<W27, 0, e + 1>> ELSE <<hi1, lo2, e>>

\* the position of the leading bit of an integer 0 < i < 2^30
Ilog2(i) == CHOOSE b \in 0..29 : Pow2(b) <= i /\ i < 2 * Pow2(b)

\* float(i) for an integer 0 <= i < 2^30
FromInt(i) ==
    IF i = 0 THEN FZero
    ELSE LET b == Ilog2(i)
         IN  IF b <= 27 THEN <<i * Pow2(27 - b), 0, b>>
             ELSE <<i \div Pow2(b - 27), (i % Pow2(b - 27)) * Pow2(55 - b), b>>

\* x < y
FLess(x, y) ==
    IF FIsZero(y) THEN FALSE
    ELSE IF FIsZero(x) THEN TRUE
    ELSE \/ x[3] < y[3]
         \/ x[3] = y[3] /\ (x[1] < y[1] \/ (x[1] = y[1] /\ x[2] < y[2]))

\* the four digits of base 2^14 of a significand, the most significant first
Digits(x) == <<x[1] \div W14, x[1] % W14, x[2] \div W14, x[2] % W14>>

\* Carry through digits of a base: u holds the digits not yet done, the
\* least significant first, cy is the carry into them, out the digits done,
\* the most significant first.  The first digit of the result is the carry
\* out of the last one, negative for a borrow.
RECURSIVE Carry(_, _, _, _)
Carry(u, cy, out, base) ==
    IF u = <<>> THEN <<cy>> \o out
    ELSE Carry(Tail(u), (Head(u) + cy) \div base,
               <<(Head(u) + cy) % base>> \o out, base)

\* the product of two significands given by their digits, in eight digits
MulDigits(a, b) ==
    Carry(<<a[4] * b[4],
            a[3] * b[4] + a[4] * b[3],
            a[2] * b[4] + a[3] * b[3] + a[4] * b[2],
            a[1] * b[4] + a[2] * b[3] + a[3] * b[2] + a[4] * b[1],
            a[1] * b[3] + a[2] * b[2] + a[3] * b[1],
            a[1] * b[2] + a[2] * b[1],
            a[1] * b[1]>>, 0, <<>>, W14)

\* Round the product g of two significands, eight digits, to 53 bits
MulRound(g, e) ==
    LET p3 == g[1] * W14 + g[2]
        p2 == g[3] * W14 + g[4]
        p1 == g[5] * W14 + g[6]
        p0 == g[7] * W14 + g[8]
    IN  IF p3 >= W27
        THEN RoundPack(p3, p2, p1 # 0 \/ p0 # 0, e + 1)
        ELSE RoundPack(2 * p3 + (p2 \div W27), 2 * (p2 % W27) + (p1 \div W27),
                       (p1 % W27) # 0 \/ p0 # 0, e)

\* x * y, correctly rounded
FMul(x, y) ==
    IF FIsZero(x) \/ FIsZero(y) THEN FZero
    ELSE MulRound(MulDigits(Digits(x), Digits(y)), x[3] + y[3])

\* Carry through five digits of base 2^14, the most significant first; the
\* first digit of the result carries the sign
Norm5(t) ==
    LET s1 == t[4] + (t[5] \div W14)
        s2 == t[3] + (s1 \div W14)
        s3 == t[2] + (s2 \div W14)
    IN  <<t[1] + (s3 \div W14), s3 % W14, s2 % W14, s1 % W14, t[5] % W14>>

\* One digit of long division in base 2^14 (Knuth's algorithm D): r is the
\* remainder, five digits, below 2^14 times the divisor d, four digits with
\* d[1] >= 2^13.  The digit q estimated from the leading digits is at most
\* two too large: while the remainder t it leaves is negative the digit is
\* lowered and the divisor added back.  The result is the digit followed by
\* the new remainder.
RECURSIVE DivFix(_, _, _)
DivFix(q, t, d) ==
    IF t[1] >= 0 THEN <<q, t[2], t[3], t[4], t[5]>>
    ELSE DivFix(q - 1,
                Norm5(<<t[1], t[2] + d[1], t[3] + d[2], t[4] + d[3], t[5] + d[4]>>),
                d)

DivTry(q, r, d) ==
    DivFix(q,
           Norm5(<<r[1], r[2] - q * d[1], r[3] - q * d[2],
                   r[4] - q * d[3], r[5] - q * d[4]>>),
           d)

DivDigit(r, d) ==
    IF (r[1] * W14 + r[2]) \div d[1] >= W14
    THEN DivTry(W14 - 1, r, d)
    ELSE DivTry((r[1] * W14 + r[2]) \div d[1], r, d)

\* Long division: q holds the digits of the quotient found before, s is the
\* latest digit with its remainder.  The result is the five digits of the
\* quotient and the last remainder.
RECURSIVE LongDiv(_, _, _)
LongDiv(q, s, d) ==
    IF Len(q) = 4 THEN <<Append(q, s[1]), s>>
    ELSE LongDiv(Append(q, s[1]), DivDigit(<<s[2], s[3], s[4], s[5], 0>>, d), d)

\* Round the quotient of two significands to 57 bits, floor(mx * 2^56 / my),
\* with the remainder left, to 53 bits
DivRound(qs, e) ==
    LET q == qs[1]
        qh == (q[1] * W14 + q[2]) * W14 + q[3]
        ql == q[4] * W14 + q[5]
        sticky == qs[2][2] # 0 \/ qs[2][3] # 0 \/ qs[2][4] # 0 \/ qs[2][5] # 0
    IN  IF q[1] = 1
        THEN RoundPack(qh \div 2, (qh % 2) * W27 + (ql \div 2),
                       sticky \/ ql % 2 = 1, e)
        ELSE RoundPack(qh, ql, sticky, e - 1)

\* x / y for y # 0, correctly rounded
FDiv(x, y) ==
    IF FIsZero(x) THEN FZero
    ELSE DivRound(LongDiv(<<>>, DivDigit(<<0>> \o Digits(x), Digits(y)), Digits(y)),
                  x[3] - y[3])

\* <<hi, lo>> * 2^t for 0 <= t < 28, in three digits of 28 bits
ShiftLeft(hi, lo, t) ==
    <<hi \div Pow2(28 - t),
      (hi % Pow2(28 - t)) * Pow2(t) + (lo \div Pow2(28 - t)),
      (lo % Pow2(28 - t)) * Pow2(t)>>

\* <<0>> \o s or s \o <<0>>: three digits of 28 bits as the upper or the
\* lower ones of four
Upper(s) == <<s[1], s[2], s[3], 0>>
Lower(s) == <<0, s[1], s[2], s[3]>>

\* the significand of y, 2^56 times it, divided by 2^d for 0 <= d <= 56, in
\* four digits of 28 bits
Align(y, d) ==
    IF d = 0 THEN <<y[1], y[2], 0, 0>>
    ELSE IF d <= 28 THEN Upper(ShiftLeft(y[1], y[2], 28 - d))
    ELSE Lower(ShiftLeft(y[1], y[2], 56 - d))

\* Round four digits of 28 bits whose leading bit is bit 27 - z of s[1],
\* standing for s / 2^111 * 2^e
Norm4Shift(a, b, e) == RoundPack(a[2], a[3] + b[1], b[2] # 0 \/ b[3] # 0, e)

Norm4By(s, e, z) ==
    Norm4Shift(ShiftLeft(s[1], s[2], z), ShiftLeft(s[3], s[4], z), e - z)

\* Round four digits of 28 bits with s[1] # 0, standing for s / 2^111 * 2^e
Norm4(s, e) ==
    IF s[1] >= W28
    THEN RoundPack(s[1] \div 2, (s[1] % 2) * W27 + (s[2] \div 2),
                   s[2] % 2 = 1 \/ s[3] # 0 \/ s[4] # 0, e + 1)
    ELSE Norm4By(s, e, 27 - Ilog2(s[1]))

\* big + t, t the smaller term aligned to the exponent of big
AddAligned(big, t) ==
    Norm4(<<big[1] + t[1] + ((big[2] + t[2]) \div W28), (big[2] + t[2]) % W28,
            t[3], t[4]>>, big[3])

\* big + small for two numbers with the exponent of big the larger one
AddOrdered(big, small) ==
    IF big[3] - small[3] > 56 THEN big
    ELSE AddAligned(big, Align(small, big[3] - small[3]))

\* x + y, correctly rounded
FAdd(x, y) ==
    IF FIsZero(x) THEN y
    ELSE IF FIsZero(y) THEN x
    ELSE IF x[3] >= y[3] THEN AddOrdered(x, y)
    ELSE AddOrdered(y, x)

\* Round a difference s, four digits of 28 bits
SubRound(s, e) ==
    IF s[1] # 0 THEN Norm4(s, e)
    ELSE IF s[2] # 0 THEN Norm4(<<s[2], s[3], s[4], 0>>, e - 28)
    ELSE IF s[3] # 0 THEN Norm4(<<s[3], s[4], 0, 0>>, e - 56)
    ELSE IF s[4] # 0 THEN Norm4(<<s[4], 0, 0, 0>>, e - 84)
    ELSE FZero

\* top is the difference of the leading digits, b the borrow out of the
\* lower three digits followed by them
SubTop(top, b, e) == SubRound(<<top + b[1], b[2], b[3], b[4]>>, e)

\* x - t, t the subtrahend aligned to the exponent of x
SubAligned(x, t) ==
    SubTop(x[1] - t[1],
           Carry(<<0 - t[4], 0 - t[3], x[2] - t[2]>>, 0, <<>>, W28), x[3])

\* x - y for x >= y whose exponents differ by at most 56, correctly rounded
FSub(x, y) ==
    IF FIsZero(y) THEN x
    ELSE SubAligned(x, Align(y, x[3] - y[3]))

\* x <= y
FLessEq(x, y) == ~FLess(y, x)

\* The float of the decimal literal p/q (p, q integers below 2^30): reading
\* a literal rounds its value correctly, as the division of p by q does
Dec(p, q) == FDiv(FromInt(p), FromInt(q))

-----------------------------------------------------------------------------
(* numpy *)

\* An array whose elements have been computed (TLC would otherwise compute
\* an element again at every read)
StoredRow(v) == v @@ <<>>
Stored(A) == [i \in DOMAIN A |-> A[i] @@ <<>>] @@ <<>>

\* y = arange(0, num) * step + start, the last sample set to stop; a single
\* sample is the start
LinspaceBy(start, stop, num, step) ==
    [i \in 0..(num - 1) |->
        IF num = 1 THEN start
        ELSE IF i = num - 1 THEN stop
        ELSE FAdd(FMul(FromInt(i), step), start)]

\* np.linspace(start, stop, num, endpoint=False): step = (stop - start) / num
\* and stop is no sample
LinspaceNoEndpoint(start, stop, num) ==
    [i \in 0..(num - 1) |->
        FAdd(FMul(FromInt(i), FDiv(FSub(stop, start), FromInt(num))), start)]

\* np.arange(start, stop, step) with the step of linspace: the samples
\* before stop, one fewer
LinspaceArange(start, stop, num) ==
    [i \in 0..(num - 2) |->
        FAdd(FMul(FromInt(i), FDiv(FSub(stop, start), FromInt(num - 1))), start)]

\* np.linspace(start, stop, num): step = (stop - start) / (num - 1), which
\* no sample depends on when num = 1
Linspace(start, stop, num) ==
    LinspaceBy(start, stop, num,
               IF num = 1 THEN FZero
               ELSE FDiv(FSub(stop, start), FromInt(num - 1)))

\* np.meshgrid(xv, yv): X[i][j] = xv[j], Y[i][j] = yv[i]
Meshgrid(xv, yv) ==
    [X |-> [i \in DOMAIN yv |-> [j \in DOMAIN xv |-> xv[j]]],
     Y |-> [i \in DOMAIN yv |-> [j \in DOMAIN xv |-> yv[i]]]]

\* np.ones_like(A) in the place of np.zeros_like(A)
OnesLike(A) == [i \in DOMAIN A |-> [j \in DOMAIN A[i] |-> FOne]]

\* np.zeros_like(A)
ZerosLike(A) == [i \in DOMAIN A |-> [j \in DOMAIN A[i] |-> FZero]]

\* A[mask] = V[mask]
MaskedAssign(A, mask, V) ==
    [i \in DOMAIN A |-> [j \in DOMAIN A[i] |->
        IF mask[i][j] THEN V[i][j] ELSE A[i][j]]]

\* A * B, elementwise
Times(A, B) ==
    [i \in DOMAIN A |-> [j \in DOMAIN A[i] |-> FMul(A[i][j], B[i][j])]]

\* A > x, elementwise
GreaterThan(A, x) ==
    [i \in DOMAIN A |-> [j \in DOMAIN A[i] |-> FLess(x, A[i][j])]]

\* A <= x in the place of A < x
LessEqual(A, x) ==
    [i \in DOMAIN A |-> [j \in DOMAIN A[i] |-> FLessEq(A[i][j], x)]]

\* the comparison inverted: ~(A < x) in the place of A < x
NotLessThan(A, x) ==
    [i \in DOMAIN A |-> [j \in DOMAIN A[i] |-> ~FLess(A[i][j], x)]]

\* A < x, elementwise
LessThan(A, x) ==
    [i \in DOMAIN A |-> [j \in DOMAIN A[i] |-> FLess(A[i][j], x)]]

\* A & B, elementwise
And(A, B) == [i \in DOMAIN A |-> [j \in DOMAIN A[i] |-> A[i][j] /\ B[i][j]]]

-----------------------------------------------------------------------------
(* matplotlib *)

\* plt.subplots(figsize=(6,6)): a new figure with one empty axes; its number
\* is one more than the figures already open.  gcf, the current figure, is
\* left as it is.
Subplots(open, gcf) ==
    [number |-> open + 1, title |-> <<>>, meshes |-> <<>>, lines |-> <<>>,
     xlim |-> <<>>, ylim |-> <<>>, xlabel |-> "", ylabel |-> "",
     legend |-> <<>>]

\* ax.pcolormesh(Y, X, C): the two grids exchanged
PcolormeshYX(f, X, Y, C) ==
    [f EXCEPT !.meshes = Append(@, [X |-> Y, Y |-> X, C |-> C])]

\* ax.pcolormesh(X, Y, C, shading='auto')
Pcolormesh(f, X, Y, C) ==
    [f EXCEPT !.meshes = Append(@, [X |-> X, Y |-> Y, C |-> C])]

\* ax.plot(xs, ys, label=label)
Plot(f, xs, ys, label) ==
    [f EXCEPT !.lines = Append(@, [x |-> xs, y |-> ys, label |-> label])]

\* ax.legend(): one entry per labelled line
Legend(f) ==
    [f EXCEPT !.legend = [i \in DOMAIN f.lines |-> f.lines[i].label]]

-----------------------------------------------------------------------------
(* plot_region *)

\* region1 = (L * S < c)
Region1(Lg, Sg, cc) == LessThan(Times(Lg, Sg), cc)

\* mask_nonzero = (L != 0)
MaskNonzero(Lg) ==
    [i \in DOMAIN Lg |-> [j \in DOMAIN Lg[i] |-> ~FIsZero(Lg[i][j])]]

\* S[mask_nonzero] / L[mask_nonzero]: the quotient is taken only where the
\* mask holds
Quotient(Sg, Lg, mask) ==
    [i \in DOMAIN Lg |-> [j \in DOMAIN Lg[i] |->
        IF mask[i][j] THEN FDiv(Sg[i][j], Lg[i][j]) ELSE FZero]]

\* ratio = zeros_like(L); ratio[mask_nonzero] = S[mask_nonzero] / L[mask_nonzero]
Ratio(Lg, Sg) ==
    LET mask_nonzero == MaskNonzero(Lg)
    IN  MaskedAssign(ZerosLike(Lg), mask_nonzero, Quotient(Sg, Lg, mask_nonzero))

\* the two bounds of region2 exchanged: (ratio > k) & (ratio < 1/k)
Region2Swapped(rt, kk) ==
    And(GreaterThan(rt, kk), LessThan(rt, FDiv(FOne, kk)))

\* the two bounds of region2 included: (ratio >= 1/k) & (ratio <= k)
Region2Closed(rt, kk) ==
    [i \in DOMAIN rt |-> [j \in DOMAIN rt[i] |->
        FLessEq(FDiv(FOne, kk), rt[i][j]) /\ FLessEq(rt[i][j], kk)]]

\* region2 = (ratio > 1/k) & (ratio < k)
Region2(rt, kk) ==
    LET inv == FDiv(FOne, kk)
    IN  And(GreaterThan(rt, inv), LessThan(rt, kk))

\* l_line = np.linspace(1e-9, 1, 400)
LLine == StoredRow(Linspace(Dec(1, TinyDen), FOne, CurveSamples))

\* s_hyp = c / l_line
SHyp(cc, ll) == [i \in DOMAIN ll |-> FDiv(cc, ll[i])]

\* s_line_up = k * l_line
SLineUp(kk, ll) == [i \in DOMAIN ll |-> FMul(kk, ll[i])]

\* s_line_dn = (1/k) * l_line
SLineDn(kk, ll) ==
    LET inv == FDiv(FOne, kk)
    IN  [i \in DOMAIN ll |-> FMul(inv, ll[i])]

\* fig, ax = plt.subplots(...); ax.set_title(...); ax.pcolormesh(...);
\* the three ax.plot(...); the axis limits and labels; ax.legend()
Figure(cc, kk, Lg, Sg, rg, ll, hyp, up, dn, open, gcf) ==
    LET f0 == [Subplots(open, gcf) EXCEPT !.title = <<cc, kk, kk>>]
        f1 == Pcolormesh(f0, Lg, Sg, rg)
        f2 == Plot(f1, ll, hyp, "S = c/L")
        f3 == Plot(f2, ll, up, "S = k·L")
        f4 == Plot(f3, ll, dn, "S = (1/k)·L")
        f5 == [f4 EXCEPT !.xlim = <<0, 1>>, !.ylim = <<0, 1>>,
                         !.xlabel = "L", !.ylabel = "S"]
    IN  Legend(f5)

-----------------------------------------------------------------------------
(* The arguments the model calls plot_region with *)

\* c > 0: the defaults 0.05 and 1e-3, the slider's maximum 0.2, and 0.25,
\* which a grid product hits exactly
CValues == {Dec(1, 1000), Dec(1, 20), Dec(1, 5), Dec(1, 4)}
\* k >= 1: the slider's minimum 1.0, the default 10, and 1.5 and 3, which
\* grid ratios hit exactly
KValues == {Dec(1, 1), Dec(3, 2), Dec(3, 1), Dec(10, 1)}
NValues == 1..MaxN

\* the c slider: min_value 1e-8, max_value 0.2, value 1e-3
CDefault == Dec(1, 1000)
CSlider == {CDefault, Dec(1, 100), Dec(1, 20), Dec(1, 5)}
\* the k slider: min_value 1.0, step 100.0, value 10.0
KDefault == Dec(10, 1)
KSlider == {FromInt(KSliderMin + s * KSliderStep) : s \in 0..MaxKStep}
\* the n slider: min_value 50, step 50, value 200
NSlider == {NSliderMin + s * NSliderStep : s \in 0..(MaxNStep - 1)}

(* The arrays that depend on n alone, computed once for every n of the model *)

\* L, S = np.meshgrid(np.linspace(0, 1, n), np.linspace(0, 1, n))
Grid == [nn \in NValues \cup NSlider |->
            LET g == Meshgrid(Linspace(FZero, FOne, nn), Linspace(FZero, FOne, nn))
            IN  [X |-> Stored(g.X), Y |-> Stored(g.Y)]] @@ <<>>
\* L * S
Product == [nn \in NValues \cup NSlider |->
               Stored(Times(Grid[nn].X, Grid[nn].Y))] @@ <<>>
\* ratio
RatioOf == [nn \in NValues \cup NSlider |->
               Stored(Ratio(Grid[nn].X, Grid[nn].Y))] @@ <<>>


(* The boundary curves, computed once for every c and every k of the model *)

\* s_hyp
SHypOf == [cc \in CValues \cup CSlider |-> StoredRow(SHyp(cc, LLine))] @@ <<>>
\* s_line_up
SLineUpOf == [kk \in KValues \cup KSlider \cup {KDefault} |->
                 StoredRow(SLineUp(kk, LLine))] @@ <<>>
\* s_line_dn
SLineDnOf == [kk \in KValues \cup KSlider \cup {KDefault} |->
                 StoredRow(SLineDn(kk, LLine))] @@ <<>>

-----------------------------------------------------------------------------
(* One call of plot_region(c1, k1, n1), from its entry to its return, one  *)
(* conjunct per assignment                                                  *)

Call(c1, k1, n1) ==
    /\ plt < MaxFigs
    /\ c' = c1 /\ k' = k1 /\ n' = n1
    /\ L' = Grid[n1].X
    /\ S' = Grid[n1].Y
    /\ region1' = LessThan(Product[n1], c1)
    /\ ratio' = RatioOf[n1]
    /\ region2' = Region2(ratio', k1)
    /\ region' = And(region1', region2')
    /\ l_line' = LLine
    /\ s_hyp' = SHypOf[c1]
    /\ s_line_up' = SLineUpOf[k1]
    /\ s_line_dn' = SLineDnOf[k1]
    /\ fig' = Figure(c1, k1, L', S', region', l_line', s_hyp', s_line_up',
                     s_line_dn', plt, fig)
    /\ plt' = plt + 1

\* The state at the return of the first call of a process: no figure is open
First(c1, k1, n1) ==
    /\ c = c1 /\ k = k1 /\ n = n1
    /\ L = Grid[n1].X
    /\ S = Grid[n1].Y
    /\ region1 = LessThan(Product[n1], c1)
    /\ ratio = RatioOf[n1]
    /\ region2 = Region2(ratio, k1)
    /\ region = And(region1, region2)
    /\ l_line = LLine
    /\ s_hyp = SHypOf[c1]
    /\ s_line_up = SLineUpOf[k1]
    /\ s_line_dn = SLineDnOf[k1]
    /\ fig = Figure(c1, k1, L, S, region, l_line, s_hyp, s_line_up,
                    s_line_dn, 0, <<>>)
    /\ plt = 1

-----------------------------------------------------------------------------
(* plot_region called by any caller, with arguments of CValues, KValues,   *)
(* NValues                                                                  *)

Init == \E c1 \in CValues, k1 \in KValues, n1 \in NValues : First(c1, k1, n1)

\* the next call differs from the latest in c
CallC == \E c1 \in CValues \ {c} : Call(c1, k, n)
\* ... in k
CallK == \E k1 \in KValues \ {k} : Call(c, k1, n)
\* ... in n
CallN == \E n1 \in NValues \ {n} : Call(c, k, n1)
\* ... in nothing
CallSame == Call(c, k, n)

Next == CallC \/ CallK \/ CallN \/ CallSame

Spec == Init /\ [][Next]_vars

-----------------------------------------------------------------------------
(* main: the Streamlit script.  Streamlit runs it once when the page opens  *)
(* and once more after every change of a slider, in the same process.       *)

\* main(): read the sliders, fig = plot_region(c, k, n), st.pyplot(fig)
\* (which draws fig and leaves it as it is)
Main(c1, k1, n1) == Call(c1, k1, n1)

InitUI == First(CDefault, KDefault, NSliderDefault)

SlideC == \E c1 \in CSlider \ {c} : Main(c1, k, n)
SlideK == \E k1 \in KSlider \ {k} : Main(c, k1, n)
SlideN == \E n1 \in NSlider \ {n} : Main(c, k, n1)

NextUI == SlideC \/ SlideK \/ SlideN

SpecUI == InitUI /\ [][NextUI]_vars

-----------------------------------------------------------------------------
(* Claims *)

Cells == (0..(n - 1)) \X (0..(n - 1))

\* the sample of index j of n evenly spaced samples of [0, 1]: 0 first, 1
\* last, and between them within half a step of j / (n - 1)
IsSample(x, j) ==
    IF j = 0 THEN x = FZero
    ELSE IF j = n - 1 THEN x = FOne
    ELSE /\ FLess(Dec(2 * j - 1, 2 * (n - 1)), x)
         /\ FLess(x, Dec(2 * j + 1, 2 * (n - 1)))

C2_ZeroLExcluded ==
    \A p \in Cells :
        FIsZero(L[p[1]][p[2]]) =>
            /\ ratio[p[1]][p[2]] = FZero
            /\ ~region2[p[1]][p[2]]
            /\ ~region[p[1]][p[2]]

\* a point with L = 0 and S = 1 that region1 holds at, and the point
\* L = S = 0
C2_Witness ==
    /\ n > 1 /\ k # FOne /\ plt > 1
    /\ FIsZero(L[n - 1][0]) /\ S[n - 1][0] = FOne
    /\ region1[n - 1][0] /\ ~region[n - 1][0]
    /\ FIsZero(L[0][0]) /\ FIsZero(S[0][0]) /\ ~region[0][0]

\* C3: with k and n as they are, every grid point of region1 is a point of
\* region1 computed with any larger c, and every point of region1 computed
\* with a smaller c is a point of region1.
C3_Region1MonotoneInC ==
    \A c2 \in CValues :
        /\ FLess(c, c2) =>
              \A p \in Cells : region1[p[1]][p[2]] => Region1(L, S, c2)[p[1]][p[2]]
        /\ FLess(c2, c) =>
              \A p \in Cells : Region1(L, S, c2)[p[1]][p[2]] => region1[p[1]][p[2]]

\* region1 is neither empty nor full, and a larger c adds a point to it
C3_Witness ==
    /\ plt > 1
    /\ \E p \in Cells : region1[p[1]][p[2]]
    /\ \E c2 \in CValues :
          /\ FLess(c, c2)
          /\ \E p \in Cells : ~region1[p[1]][p[2]] /\ Region1(L, S, c2)[p[1]][p[2]]

\* C4: region2 at the grid point (L = a, S = b) equals region2 at the grid
\* point (L = b, S = a), for all grid values a and b, the points with a or
\* b zero among them.
C4_Region2Symmetric ==
    \A p \in Cells :
        /\ L[p[2]][p[1]] = S[p[1]][p[2]]
        /\ S[p[2]][p[1]] = L[p[1]][p[2]]
        /\ region2[p[1]][p[2]] = region2[p[2]][p[1]]

\* C5: with the defaults of the sliders, n = 200, c = 1e-3, k = 10.0, region
\* is true at a grid point of the diagonal L = S near 0.01 (between 0.005
\* and 0.015), where L*S < 0.001 and ratio is 1.
C5_DefaultRegionNearOrigin ==
    (c = CDefault /\ k = KDefault /\ n = NSliderDefault) =>
        \E i \in 0..(n - 1) :
            /\ region[i][i]
            /\ L[i][i] = S[i][i]
            /\ FLess(Dec(1, 200), L[i][i]) /\ FLess(L[i][i], Dec(3, 200))
            /\ FLess(FMul(L[i][i], S[i][i]), Dec(1, 1000))
            /\ ratio[i][i] = FOne

\* the sliders are back at their defaults after a change
C5_Witness ==
    /\ c = CDefault /\ k = KDefault /\ n = NSliderDefault /\ plt > 2
    /\ region[2][2]

C7_CallsShareNothing ==
    fig = Figure(c, k, L, S, region, l_line, s_hyp, s_line_up, s_line_dn,
                 0, <<>>)

\* C8: each of the three boundary curves has exactly 400 sample points,
\* whatever n is, and every sampled L value is in (0, 1]: never 0, the
\* last one exactly 1.
C8_CurveSamples ==
    /\ DOMAIN l_line = 0..(CurveSamples - 1)
    /\ \A m \in DOMAIN fig.lines :
          /\ fig.lines[m].x = l_line
          /\ DOMAIN fig.lines[m].y = 0..(CurveSamples - 1)
          /\ Cardinality(DOMAIN fig.lines[m].y) = 400
    /\ Len(fig.lines) = 3
    /\ \A i \in DOMAIN l_line :
          FLess(FZero, l_line[i]) /\ FLessEq(l_line[i], FOne)
    /\ l_line[CurveSamples - 1] = FOne

\* the smallest grid, whose curves still have 400 samples, the first 1e-9
C8_Witness ==
    /\ n = 1 /\ plt > 1
    /\ Cardinality(DOMAIN s_hyp) = 400
    /\ l_line[0] = Dec(1, TinyDen)

\* C9: the region matrix has exactly n rows and n columns and every entry
\* is a boolean; for c = 0.05, k = 10, n = 5 it is 5 x 5.
C9_RegionShape ==
    /\ DOMAIN region = 0..(n - 1)
    /\ \A i \in DOMAIN region :
          /\ DOMAIN region[i] = 0..(n - 1)
          /\ \A j \in DOMAIN region[i] : region[i][j] \in BOOLEAN
    /\ (c = Dec(1, 20) /\ k = Dec(10, 1) /\ n = 5) =>
          /\ Cardinality(DOMAIN region) = 5
          /\ \A i \in DOMAIN region : Cardinality(DOMAIN region[i]) = 5

C9_Witness ==
    /\ c = Dec(1, 20) /\ k = Dec(10, 1) /\ n = 5 /\ plt > 1
    /\ Cardinality(DOMAIN region) = 5

\* C10: with the k slider at its minimum, k = 1, region2 and region are
\* false at every grid point, the diagonal L = S among them, for every c
\* and n, and the region drawn is empty.
C10_EmptyAtKOne ==
    k = FromInt(KSliderMin) =>
        \A p \in Cells :
            /\ ~region2[p[1]][p[2]]
            /\ ~region[p[1]][p[2]]
            /\ ~fig.meshes[1].C[p[1]][p[2]]

\* k = 1 and a point of the diagonal that region1 holds at
C10_Witness ==
    /\ k = FOne /\ plt > 1
    /\ region1[1][1] /\ ratio[1][1] = FOne /\ ~region[1][1]

====
